---- MODULE Spec2Model ----
(***************************************************************************)
(* Emoji steganography codec (src/emoji_stego_android.py).                 *)
(*                                                                         *)
(* A Python str is modelled as a sequence of code points (integers), a     *)
(* bytes object as a sequence of integers 0..255, and the intermediate     *)
(* binary string of the zero-width codec as a sequence of the one-char     *)
(* strings "0" and "1".  A function that returns either a str or None is   *)
(* modelled by a record [found, text]: None is [found |-> FALSE], and the  *)
(* empty str is Some(<<>>), which is a different value.                    *)
(***************************************************************************)
EXTENDS Integers, Sequences, FiniteSets, TLC

VARIABLES
    emoji,        \* carrier argument of the encoders
    payload,      \* hidden_text argument of the encoders
    scheme,       \* encoder that produced stego_emoji: "TAG", "BINARY", "NONE"
    stego_emoji,  \* the string handed to the decoders
    call,         \* the operation that ran last
    mode,         \* DecodeTab toggle state used by decode_message
    hidden_text,  \* value returned by the decoder / local of decode_message
    mode_found,   \* local mode_found of decode_message
    result_output \* DecodeTab.result_output.text

vars == <<emoji, payload, scheme, stego_emoji, call, mode, hidden_text,
          mode_found, result_output>>

-----------------------------------------------------------------------------
(* Bounds of the model                                                     *)

MaxPayload == 2
MaxScan == 4
MaxBytes == 3

-----------------------------------------------------------------------------
(* Python values                                                           *)

None == [found |-> FALSE, text |-> <<>>]
Some(t) == [found |-> TRUE, text |-> t]

\* Python truthiness of a str-or-None value: None and '' are both falsy.
Truthy(r) == r.found /\ r.text # <<>>

RECURSIVE SeqsUpTo(_, _)
SeqsUpTo(S, n) ==
    IF n = 0 THEN {<<>>}
    ELSE LET shorter == SeqsUpTo(S, n - 1)
         IN  shorter \cup {Append(s, c) : s \in shorter, c \in S}

RECURSIVE Repeat(_, _)
Repeat(c, n) == IF n = 0 THEN <<>> ELSE <<c>> \o Repeat(c, n - 1)

-----------------------------------------------------------------------------
(* str.encode('utf-8') and bytes.decode('utf-8'), bytes.decode('latin-1')  *)

utf8_encode_char(c) ==
    IF c < 128 THEN <<c>>
    ELSE IF c < 2048 THEN <<192 + (c \div 64), 128 + (c % 64)>>
    ELSE IF c < 65536 THEN
        <<224 + (c \div 4096), 128 + ((c \div 64) % 64), 128 + (c % 64)>>
    ELSE
        <<240 + (c \div 262144), 128 + ((c \div 4096) % 64),
          128 + ((c \div 64) % 64), 128 + (c % 64)>>

RECURSIVE utf8_encode(_)
utf8_encode(text) ==
    IF text = <<>> THEN <<>>
    ELSE utf8_encode_char(Head(text)) \o utf8_encode(Tail(text))

IsCont(b, i) == i <= Len(b) /\ b[i] \in 128..191

\* Strict UTF-8: no overlong forms, no surrogates, nothing above U+10FFFF.
RECURSIVE utf8_decode_from(_, _, _)
utf8_decode_from(b, i, acc) ==
    IF i > Len(b) THEN Some(acc)
    ELSE LET b0 == b[i] IN
    IF b0 < 128 THEN utf8_decode_from(b, i + 1, Append(acc, b0))
    ELSE IF b0 \in 194..223 /\ IsCont(b, i + 1) THEN
        utf8_decode_from(b, i + 2,
            Append(acc, (b0 - 192) * 64 + (b[i + 1] - 128)))
    ELSE IF /\ b0 \in 224..239
            /\ IsCont(b, i + 1) /\ IsCont(b, i + 2)
            /\ (b0 = 224 => b[i + 1] >= 160)
            /\ (b0 = 237 => b[i + 1] <= 159) THEN
        utf8_decode_from(b, i + 3,
            Append(acc, (b0 - 224) * 4096 + (b[i + 1] - 128) * 64
                        + (b[i + 2] - 128)))
    ELSE IF /\ b0 \in 240..244
            /\ IsCont(b, i + 1) /\ IsCont(b, i + 2) /\ IsCont(b, i + 3)
            /\ (b0 = 240 => b[i + 1] >= 144)
            /\ (b0 = 244 => b[i + 1] <= 143) THEN
        utf8_decode_from(b, i + 4,
            Append(acc, (b0 - 240) * 262144 + (b[i + 1] - 128) * 4096
                        + (b[i + 2] - 128) * 64 + (b[i + 3] - 128)))
    ELSE None

utf8_decode(b) == utf8_decode_from(b, 1, <<>>)

\* Latin-1 maps every byte to the code point of the same value.
latin1_decode(b) == Some(b)

\* str.strip(): the code points str.isspace() accepts.
IsSpace(c) ==
    \/ c \in 9..13 \/ c \in 28..32 \/ c = 133 \/ c = 160 \/ c = 5760
    \/ c \in 8192..8202 \/ c \in {8232, 8233, 8239, 8287, 12288}

RECURSIVE lstrip(_)
lstrip(s) == IF s # <<>> /\ IsSpace(Head(s)) THEN lstrip(Tail(s)) ELSE s

RECURSIVE rstrip(_)
rstrip(s) ==
    IF s # <<>> /\ IsSpace(s[Len(s)]) THEN rstrip(SubSeq(s, 1, Len(s) - 1))
    ELSE s

strip(s) == rstrip(lstrip(s))

-----------------------------------------------------------------------------
(* TAG MODE                                                                *)

TAG_BASE == 917504
TAG_END == 917631

\* Variant of text_to_tags that emits the low nibble first.
text_to_tags_swapped(text) ==
    LET utf8_bytes == utf8_encode(text)
        pair(byte) == <<TAG_BASE + (byte % 16), TAG_BASE + ((byte \div 16) % 16)>>
        F[i \in 0..Len(utf8_bytes)] ==
            IF i = 0 THEN <<>> ELSE F[i - 1] \o pair(utf8_bytes[i])
    IN  F[Len(utf8_bytes)]

\* For each UTF-8 byte: chr(TAG_BASE + high), chr(TAG_BASE + low).
text_to_tags(text) ==
    LET utf8_bytes == utf8_encode(text)
        pair(byte) == <<TAG_BASE + ((byte \div 16) % 16), TAG_BASE + (byte % 16)>>
        F[i \in 0..Len(utf8_bytes)] ==
            IF i = 0 THEN <<>> ELSE F[i - 1] \o pair(utf8_bytes[i])
    IN  F[Len(utf8_bytes)]

hide_text_in_emoji_tags(e, text) == e \o text_to_tags(text) \o <<TAG_END>>

\* Variant of scan_nibbles that does not stop at TAG_END.
RECURSIVE scan_nibbles_no_break(_)
scan_nibbles_no_break(s) ==
    IF s = <<>> THEN <<>>
    ELSE LET code == Head(s) IN
         IF TAG_BASE <= code /\ code < TAG_BASE + 16
         THEN <<code - TAG_BASE>> \o scan_nibbles_no_break(Tail(s))
         ELSE scan_nibbles_no_break(Tail(s))

\* The scan loop of reveal_text_from_emoji_tags: nibbles collected up to the
\* first TAG_END, every other code point skipped.
RECURSIVE scan_nibbles(_)
scan_nibbles(s) ==
    IF s = <<>> THEN <<>>
    ELSE LET code == Head(s) IN
         IF TAG_BASE <= code /\ code < TAG_BASE + 16
         THEN <<code - TAG_BASE>> \o scan_nibbles(Tail(s))
         ELSE IF code = TAG_END THEN <<>>
         ELSE scan_nibbles(Tail(s))

\* Variant of nibbles_to_bytes that turns an unpaired digit into an invalid
\* byte instead of dropping it.
nibbles_to_bytes_strict(nibbles) ==
    IF Len(nibbles) % 2 = 1 THEN <<255>>
    ELSE [k \in 1..(Len(nibbles) \div 2) |->
              nibbles[2 * k - 1] * 16 + nibbles[2 * k]]

\* for i in range(0, len(nibbles) - 1, 2): (high << 4) | low
nibbles_to_bytes(nibbles) ==
    [k \in 1..(Len(nibbles) \div 2) |->
        nibbles[2 * k - 1] * 16 + nibbles[2 * k]]

\* Variant of reveal_text_from_emoji_tags without the 'if not nibbles' return.
reveal_text_from_emoji_tags_no_guard(s) ==
    utf8_decode(nibbles_to_bytes(scan_nibbles(s)))

reveal_text_from_emoji_tags(s) ==
    LET nibbles == scan_nibbles(s) IN
    IF nibbles = <<>> THEN None
    ELSE utf8_decode(nibbles_to_bytes(nibbles))

-----------------------------------------------------------------------------
(* BINARY MODE                                                             *)

ZERO_WIDTH_CHARS == [zero |-> 8203, one |-> 8204, sep |-> 8205]

\* format(byte, '08b')
format_08b(byte) ==
    [k \in 1..8 |->
        IF (byte \div (2 ^ (8 - k))) % 2 = 1 THEN "1" ELSE "0"]

\* int(byte, 2) for an 8-character group
int_base2(g) ==
    LET F[k \in 0..Len(g)] ==
            IF k = 0 THEN 0 ELSE 2 * F[k - 1] + (IF g[k] = "1" THEN 1 ELSE 0)
    IN  F[Len(g)]

RECURSIVE text_to_binary_bytes(_)
text_to_binary_bytes(b) ==
    IF b = <<>> THEN <<>>
    ELSE format_08b(Head(b)) \o text_to_binary_bytes(Tail(b))

text_to_binary(text) == text_to_binary_bytes(utf8_encode(text))

\* Variant of binary_groups that also converts a shorter trailing group.
binary_groups_keep_partial(binary) ==
    [k \in 1..((Len(binary) + 7) \div 8) |->
        int_base2(SubSeq(binary, 8 * k - 7,
                         IF 8 * k <= Len(binary) THEN 8 * k ELSE Len(binary)))]

\* Complete 8-bit groups of the binary string, left to right; a shorter
\* trailing group is skipped.
binary_groups(binary) ==
    [k \in 1..(Len(binary) \div 8) |->
        int_base2(SubSeq(binary, 8 * k - 7, 8 * k))]

control_count(result) ==
    Cardinality({i \in 1..Len(result) :
                    result[i] < 32 /\ result[i] \notin {10, 13, 9}})

\* Variant of plausible with a strict comparison.
plausible_strict(result) == 10 * control_count(result) < Len(result)

\* control_count <= len(result) * 0.1
plausible(result) == 10 * control_count(result) <= Len(result)

\* The Latin-1 decoding cannot fail, so the chr() fallback after it and the
\* final 'return None' are never reached.
binary_to_text(binary) ==
    LET bytes_list == binary_groups(binary)
        utf8 == utf8_decode(bytes_list)
    IN  IF bytes_list = <<>> THEN None
        ELSE IF utf8.found /\ plausible(utf8.text) THEN utf8
        ELSE latin1_decode(bytes_list)

encode_text_in_emoji_binary(e, text) ==
    LET binary == text_to_binary(text)
        hidden_chars == [k \in 1..Len(binary) |->
            IF binary[k] = "1" THEN ZERO_WIDTH_CHARS.one
            ELSE ZERO_WIDTH_CHARS.zero]
    IN  e \o hidden_chars \o <<ZERO_WIDTH_CHARS.sep>>

\* The scan loop of decode_text_from_emoji_binary.
RECURSIVE scan_bits(_)
scan_bits(s) ==
    IF s = <<>> THEN <<>>
    ELSE LET char == Head(s) IN
         IF char = ZERO_WIDTH_CHARS.zero THEN <<"0">> \o scan_bits(Tail(s))
         ELSE IF char = ZERO_WIDTH_CHARS.one THEN <<"1">> \o scan_bits(Tail(s))
         ELSE IF char = ZERO_WIDTH_CHARS.sep THEN <<>>
         ELSE scan_bits(Tail(s))

decode_text_from_emoji_binary(s) ==
    LET binary == scan_bits(s) IN
    IF binary = <<>> THEN None ELSE binary_to_text(binary)

-----------------------------------------------------------------------------
(* DecodeTab.decode_message                                                *)

\* 'No hidden message detected.'
NO_MESSAGE ==
    <<78, 111, 32, 104, 105, 100, 100, 101, 110, 32, 109, 101, 115, 115, 97,
      103, 101, 32, 100, 101, 116, 101, 99, 116, 101, 100, 46>>

\* Locals hidden_text and mode_found after the mode dispatch (lines 377-393).
decode_dispatch(m, s) ==
    IF m = "AUTO" THEN
        LET tag == reveal_text_from_emoji_tags(s) IN
        IF Truthy(tag) THEN [hidden_text |-> tag, mode_found |-> "TAG"]
        ELSE LET bin == decode_text_from_emoji_binary(s) IN
             [hidden_text |-> bin,
              mode_found |-> IF Truthy(bin) THEN "BINARY" ELSE ""]
    ELSE IF m = "TAG" THEN
        [hidden_text |-> reveal_text_from_emoji_tags(s), mode_found |-> "TAG"]
    ELSE
        [hidden_text |-> decode_text_from_emoji_binary(s),
         mode_found |-> "BINARY"]

-----------------------------------------------------------------------------
(* Inputs                                                                  *)

\* Carriers: empty, a lock, "Hi", a lock followed by ZERO WIDTH SPACE, the
\* ZWJ sequence man + ZWJ + woman, and the flag of England (black flag, tag
\* letters g b e n g, CANCEL TAG).
Carriers ==
    { <<>>,
      <<128274>>,
      <<72, 105>>,
      <<128274, 8203>>,
      <<128104, 8205, 128105>>,
      <<127988, 917607, 917602, 917605, 917614, 917607, 917631>> }

\* Payload code points: a control character, 'H', e-acute (2 bytes),
\* the euro sign (3 bytes), a lock emoji (4 bytes).
PayloadChars == {1, 72, 233, 8364, 128274}

Payloads == SeqsUpTo(PayloadChars, MaxPayload)

\* Strings scanned by the tag decoder: three digits, the terminator, noise.
TagScanChars == {TAG_BASE + 4, TAG_BASE + 8, TAG_BASE + 12, TAG_END, 65}

TagInputs == SeqsUpTo(TagScanChars, MaxScan)

\* Strings scanned by the binary decoder: a prefix, the bits of some bytes
\* (a control character, newline, the two bytes of e-acute), a run of 'A' bytes, a partial trailing group, and an ending.
ByteSamples == {1, 10, 195, 169}

BinPrefixes == {<<>>, <<TAG_BASE + 4>>, <<TAG_BASE + 4, TAG_BASE + 8>>}

PadLens == {0, 7, 8}

BinTails == {<<>>, <<ZERO_WIDTH_CHARS.one, ZERO_WIDTH_CHARS.zero,
                    ZERO_WIDTH_CHARS.one>>}

BinEndings == {<<>>, <<ZERO_WIDTH_CHARS.sep, ZERO_WIDTH_CHARS.one>>}

BitChars(bytes) ==
    LET binary == text_to_binary_bytes(bytes) IN
    [k \in 1..Len(binary) |->
        IF binary[k] = "1" THEN ZERO_WIDTH_CHARS.one ELSE ZERO_WIDTH_CHARS.zero]

BinInputs ==
    { pre \o BitChars(bytes \o Repeat(65, pad)) \o tail \o ending :
        pre \in BinPrefixes, bytes \in SeqsUpTo(ByteSamples, MaxBytes),
        pad \in PadLens, tail \in BinTails, ending \in BinEndings }

\* Strings with surrounding whitespace, for the strip() of decode_message.
SpaceInputs == {<<32>>, <<32, TAG_BASE + 4, TAG_BASE + 8, 10>>}

Pasted == TagInputs \cup BinInputs \cup SpaceInputs

Modes == {"AUTO", "TAG", "BINARY"}

-----------------------------------------------------------------------------
(* State machine                                                           *)

Init ==
    /\ \/ /\ emoji \in Carriers
          /\ payload \in Payloads
          /\ stego_emoji = <<>>
          /\ call = "none"
       \/ /\ emoji = <<>>
          /\ payload = <<>>
          /\ stego_emoji \in Pasted
          /\ call = "paste"
    /\ scheme = "NONE"
    /\ mode = "AUTO"
    /\ hidden_text = None
    /\ mode_found = ""
    /\ result_output = <<>>

Ready ==
    call \in {"paste", "hide_text_in_emoji_tags", "encode_text_in_emoji_binary"}

HideTextInEmojiTags ==
    /\ call = "none"
    /\ stego_emoji' = hide_text_in_emoji_tags(emoji, payload)
    /\ scheme' = "TAG"
    /\ call' = "hide_text_in_emoji_tags"
    /\ UNCHANGED <<emoji, payload, mode, hidden_text, mode_found, result_output>>

EncodeTextInEmojiBinary ==
    /\ call = "none"
    /\ stego_emoji' = encode_text_in_emoji_binary(emoji, payload)
    /\ scheme' = "BINARY"
    /\ call' = "encode_text_in_emoji_binary"
    /\ UNCHANGED <<emoji, payload, mode, hidden_text, mode_found, result_output>>

RevealTextFromEmojiTags ==
    /\ Ready
    /\ hidden_text' = reveal_text_from_emoji_tags(stego_emoji)
    /\ call' = "reveal_text_from_emoji_tags"
    /\ UNCHANGED <<emoji, payload, scheme, stego_emoji, mode, mode_found,
                   result_output>>

DecodeTextFromEmojiBinary ==
    /\ Ready
    /\ hidden_text' = decode_text_from_emoji_binary(stego_emoji)
    /\ call' = "decode_text_from_emoji_binary"
    /\ UNCHANGED <<emoji, payload, scheme, stego_emoji, mode, mode_found,
                   result_output>>

\* DecodeTab.decode_message with the toggle group in state m.
DecodeMessage(m) ==
    /\ Ready
    /\ mode' = m
    /\ call' = "decode_message"
    /\ LET s == strip(stego_emoji) IN
       IF s = <<>> THEN
           \* 'Input Required' popup and return
           UNCHANGED <<hidden_text, mode_found, result_output>>
       ELSE
           LET d == decode_dispatch(m, s) IN
           /\ hidden_text' = d.hidden_text
           /\ mode_found' = d.mode_found
           /\ result_output' =
                 IF Truthy(d.hidden_text) THEN d.hidden_text.text
                 ELSE NO_MESSAGE
    /\ UNCHANGED <<emoji, payload, scheme, stego_emoji>>

Next ==
    \/ HideTextInEmojiTags
    \/ EncodeTextInEmojiBinary
    \/ RevealTextFromEmojiTags
    \/ DecodeTextFromEmojiBinary
    \/ \E m \in Modes : DecodeMessage(m)

Spec == Init /\ [][Next]_vars

-----------------------------------------------------------------------------
(* Vocabulary of the properties, stated without the decoders' scan loops   *)

FirstIndex(s, t) ==
    IF \E i \in 1..Len(s) : s[i] = t
    THEN CHOOSE i \in 1..Len(s) : s[i] = t /\ \A j \in 1..(i - 1) : s[j] # t
    ELSE Len(s) + 1

Before(s, t) == SubSeq(s, 1, FirstIndex(s, t) - 1)

IsTagDigit(c) == c \in 917504..917519

InTagAlphabet(c) == IsTagDigit(c) \/ c = 917631

IsBitChar(c) == c \in {8203, 8204}

InBinaryAlphabet(c) == c \in {8203, 8204, 8205}

\* Tag digit code points before the first U+E007F.
CollectedDigitChars(s) == SelectSeq(Before(s, 917631), IsTagDigit)

CollectedDigits(s) ==
    LET d == CollectedDigitChars(s) IN [i \in 1..Len(d) |-> d[i] - 917504]

PairedBytes(d) == [i \in 1..(Len(d) \div 2) |-> d[2 * i - 1] * 16 + d[2 * i]]

\* Bit characters before the first U+200D.
CollectedBitChars(s) == SelectSeq(Before(s, 8205), IsBitChar)

GroupedBytes(bits) ==
    LET v(i) == IF bits[i] = 8204 THEN 1 ELSE 0 IN
    [k \in 1..(Len(bits) \div 8) |->
        128 * v(8 * k - 7) + 64 * v(8 * k - 6) + 32 * v(8 * k - 5)
        + 16 * v(8 * k - 4) + 8 * v(8 * k - 3) + 4 * v(8 * k - 2)
        + 2 * v(8 * k - 1) + v(8 * k)]

ControlChars(text) ==
    Cardinality({i \in 1..Len(text) : text[i] < 32 /\ text[i] \notin {9, 10, 13}})

InsertAt(s, i, c) == SubSeq(s, 1, i) \o <<c>> \o SubSeq(s, i + 1, Len(s))

RemoveAt(s, i) == SubSeq(s, 1, i - 1) \o SubSeq(s, i + 1, Len(s))

ReplaceAt(s, i, c) == [s EXCEPT ![i] = c]

\* Code points outside the 17-character tag alphabet, among them the
\* neighbours of the digit range and of the terminator.
NoiseChars == {65, 917503, 917520, 917630, 917632, 8203, 8205}

AfterTerminator ==
    { <<>>, <<65>>, <<917508>>, <<917508, 917512>>, <<917631, 917516>> }

TagEncoded == scheme = "TAG"

BinaryEncoded == scheme = "BINARY"

TagDecoded == call = "reveal_text_from_emoji_tags"

BinaryDecoded == call = "decode_text_from_emoji_binary"

AutoDecoded ==
    call = "decode_message" /\ mode = "AUTO" /\ strip(stego_emoji) # <<>>

-----------------------------------------------------------------------------
(* C1 *)

\* C1 as stated, taken on the non-empty payloads (the empty payload is the
\* subject of C4): for every carrier and every payload, decoding the tag
\* encoding returns exactly the payload.
C1_TagRoundTrip ==
    (TagEncoded /\ TagDecoded /\ payload # <<>>) => hidden_text = Some(payload)

-----------------------------------------------------------------------------
(* C2 *)

\* C2 as stated, taken on the non-empty payloads: for every carrier and every
\* payload, decoding the binary encoding returns exactly the payload.
C2_BinaryRoundTrip ==
    (BinaryEncoded /\ BinaryDecoded /\ payload # <<>>)
        => hidden_text = Some(payload)

-----------------------------------------------------------------------------
(* C3 *)

\* C3 as stated, taken on the non-empty payloads: for every carrier, payload
\* and scheme S, decoding the S-encoding in Auto mode reports
\* hidden_text = payload and mode_found = S.
C3_AutoDetection ==
    (AutoDecoded /\ scheme \in {"TAG", "BINARY"} /\ payload # <<>>)
        => hidden_text = Some(payload) /\ mode_found = scheme

-----------------------------------------------------------------------------
(* C4 *)

-----------------------------------------------------------------------------
(* C5 *)

\* C5: the tag stego string is the carrier, then for each UTF-8 byte of the
\* payload its high nibble digit and its low nibble digit, then one U+E007F;
\* the binary stego string is the carrier, then for each byte its 8 bits,
\* most significant first, 0 as U+200B and 1 as U+200C, then one U+200D.
C5_StegoFormat ==
    LET b == utf8_encode(payload)
        n == Len(b)
        L == Len(emoji)
        s == stego_emoji
    IN  /\ TagEncoded =>
              /\ Len(s) = L + 2 * n + 1
              /\ SubSeq(s, 1, L) = emoji
              /\ \A i \in 1..n :
                    /\ s[L + 2 * i - 1] = 917504 + (b[i] \div 16)
                    /\ s[L + 2 * i] = 917504 + (b[i] % 16)
              /\ s[Len(s)] = 917631
        /\ BinaryEncoded =>
              /\ Len(s) = L + 8 * n + 1
              /\ SubSeq(s, 1, L) = emoji
              /\ \A i \in 1..n : \A j \in 1..8 :
                    s[L + 8 * (i - 1) + j] =
                        IF (b[i] \div (2 ^ (8 - j))) % 2 = 1 THEN 8204 ELSE 8203
              /\ s[Len(s)] = 8205

C5_Witness ==
    /\ call = "hide_text_in_emoji_tags"
    /\ emoji = <<128274>>
    /\ payload = <<72, 8364>>
    /\ stego_emoji = <<128274, 917508, 917512, 917518, 917506, 917512, 917506,
                       917514, 917516, 917631>>

-----------------------------------------------------------------------------
(* C6 *)

\* C6: the result of the tag decoder is that of the tag digits before the
\* first terminator alone.  On the scanned strings of at most 3 * MaxScan
\* code points every single edit is tried as well: inserting, removing or
\* replacing a code point outside the tag alphabet, or rewriting what follows
\* the first terminator, leaves the result unchanged.
C6_MixedContentScan ==
    TagDecoded =>
        LET s == stego_emoji
            k == FirstIndex(s, 917631)
        IN  /\ hidden_text = reveal_text_from_emoji_tags(CollectedDigitChars(s))
            /\ Len(s) <= 3 * MaxScan =>
                  /\ \A i \in 0..Len(s) : \A c \in NoiseChars :
                        reveal_text_from_emoji_tags(InsertAt(s, i, c))
                            = hidden_text
                  /\ \A i \in 1..Len(s) :
                        ~InTagAlphabet(s[i]) =>
                            /\ reveal_text_from_emoji_tags(RemoveAt(s, i))
                                  = hidden_text
                            /\ \A c \in NoiseChars :
                                  reveal_text_from_emoji_tags(ReplaceAt(s, i, c))
                                      = hidden_text
                  /\ k <= Len(s) =>
                        \A t \in AfterTerminator :
                            reveal_text_from_emoji_tags(SubSeq(s, 1, k) \o t)
                                = hidden_text

C6_Witness ==
    /\ TagDecoded
    /\ stego_emoji = <<917508, 65, 917512, 917631>>
    /\ hidden_text = Some(<<72>>)

-----------------------------------------------------------------------------
(* C7 *)

\* C7 as stated: whenever the number n of collected bits is not a multiple of
\* 8, the binary decoder succeeds and returns the decoding of the first
\* floor(n/8) complete groups.
C7_BinaryTruncation ==
    BinaryDecoded =>
        LET bits == CollectedBitChars(stego_emoji)
            n == Len(bits)
        IN  n % 8 # 0 =>
              /\ hidden_text.found
              /\ hidden_text =
                    decode_text_from_emoji_binary(SubSeq(bits, 1, 8 * (n \div 8)))

\* C7 amended: whenever the number n of collected bits is not a multiple of 8
\* and is at least 8, the binary decoder succeeds and returns the decoding of
\* the first floor(n/8) complete groups, the trailing n mod 8 bits dropped
\* (for 11 bits: of the first byte alone); when n is below 8 there is no
\* complete group and the result is NotFound.
C7_BinaryTruncationAmended ==
    BinaryDecoded =>
        LET bits == CollectedBitChars(stego_emoji)
            n == Len(bits)
        IN  n % 8 # 0 =>
              /\ n >= 8 =>
                    /\ hidden_text.found
                    /\ hidden_text =
                          decode_text_from_emoji_binary(
                              SubSeq(bits, 1, 8 * (n \div 8)))
              /\ n = 11 =>
                    hidden_text = decode_text_from_emoji_binary(SubSeq(bits, 1, 8))
              /\ n < 8 => hidden_text = None

C7_Witness ==
    /\ BinaryDecoded
    /\ Len(CollectedBitChars(stego_emoji)) = 11
    /\ hidden_text = Some(<<10>>)

-----------------------------------------------------------------------------
(* C8 *)

\* C8 as stated: in Auto mode, whenever the tag decoder returns a payload
\* (any payload) the result is that payload with scheme TAG; the binary
\* decoder decides exactly when the tag decoder returned NotFound; the
\* result is NotFound only when both decoders return NotFound.
C8_AutoPriority ==
    AutoDecoded =>
        LET s == strip(stego_emoji)
            tag == reveal_text_from_emoji_tags(s)
            bin == decode_text_from_emoji_binary(s)
        IN  /\ tag.found => (hidden_text = tag /\ mode_found = "TAG")
            /\ ~tag.found =>
                  (hidden_text = bin /\ (bin.found => mode_found = "BINARY"))
            /\ ~hidden_text.found <=> (~tag.found /\ ~bin.found)

-----------------------------------------------------------------------------
(* C9 *)

\* C9: once the collected bits hold a complete byte, the binary decoder
\* returns the UTF-8 decoding of the bytes when they are well-formed UTF-8
\* with at most 10% control characters, and their Latin-1 decoding in every
\* other case; it never returns NotFound.
C9_BinaryFallbackChain ==
    BinaryDecoded =>
        LET bits == CollectedBitChars(stego_emoji)
            bytes == GroupedBytes(bits)
            u == utf8_decode(bytes)
        IN  Len(bits) >= 8 =>
              /\ hidden_text.found
              /\ hidden_text =
                    IF u.found /\ 10 * ControlChars(u.text) <= Len(u.text)
                    THEN u
                    ELSE Some(bytes)

C9_Witness ==
    /\ BinaryDecoded
    /\ hidden_text = Some(<<1, 233, 65, 65, 65, 65, 65, 65, 65, 65>>)

-----------------------------------------------------------------------------
(* C10 *)

\* C10: with d the tag digits before the first terminator and n their number,
\* the tag decoder returns NotFound exactly when n = 0 or the floor(n/2)
\* paired bytes are malformed UTF-8, and the UTF-8 decoding of those bytes
\* otherwise; a single digit yields the empty string, not NotFound.
C10_TagDecodeOutcome ==
    TagDecoded =>
        LET d == CollectedDigits(stego_emoji)
            n == Len(d)
            u == utf8_decode(PairedBytes(d))
        IN  /\ hidden_text = None <=> (n = 0 \/ ~u.found)
            /\ hidden_text # None => hidden_text = u
            /\ n = 1 => hidden_text = Some(<<>>)

C10_Witness ==
    /\ TagDecoded
    /\ stego_emoji = <<65, 917508, 917631, 917512>>
    /\ Len(CollectedDigits(stego_emoji)) = 1
    /\ hidden_text = Some(<<>>)

====
